---- MODULE Spec2Model ----
(***************************************************************************)
(* Model of the price-watcher ingestion pipeline (scripts/*.py).           *)
(*                                                                         *)
(* Python strings are sequences of one-character strings, so that the      *)
(* regular expressions, the URL formatting and the prefix tests of the     *)
(* scripts are computed and not assumed.  Python's None is the sentinel    *)
(* None (a one-element sequence whose element is no character).            *)
(***************************************************************************)
EXTENDS Integers, Sequences, FiniteSets, TLC

VARIABLES
    file,           \* data/products.json as it is on disk
    pc,             \* position of the running script ("idle" between runs)
    products,       \* the run's in-memory list of product records
    existing_asins, \* import_ranking: set of known ASINs
    urls,           \* import_ranking: the ranking pages of categories.txt, as fetched
    idx,            \* loop position (page number or record number, 1-based)
    randint,        \* update_prices: what random.randint(-100, 100) returns in this run
    unit,           \* history: how the last record of the record loop got its price
    log,            \* history: the units the run's loop processed, the units whose
                    \* page it requested, the units it slept after
    clock,          \* datetime.now(), at the granularity of runs
    runs,           \* number of runs started so far
    preRun,         \* history: content of the file when the current run started
    outcome,        \* history: how the last run ended; the pc at which it was
                    \* terminated, when it was
    assigned,       \* history: the ids of the records the catalog has held
    posted_log,     \* src/data/posted_log.json as it is on disk
    posts,          \* history: the statuses X accepted, each with its ASIN and hour
    utcnow,         \* post_to_x: datetime.now(timezone.utc), in hours
    call,           \* arguments of the pure function under analysis
    ret             \* its results (<<>> before the call)

announceVars == <<posted_log, posts, utcnow>>

vars == <<file, pc, products, existing_asins, urls, idx, randint, unit, log, clock, runs,
          preRun, outcome, assigned, announceVars, call, ret>>

-----------------------------------------------------------------------------
(* Strings *)

None == <<"<None>">>

Upper == {"A","B","C","D","E","F","G","H","I","J","K","L","M",
          "N","O","P","Q","R","S","T","U","V","W","X","Y","Z"}
Digit == {"0","1","2","3","4","5","6","7","8","9"}
UpperAlnum == Upper \cup Digit
Whitespace == {" "}

\* Python truthiness of an optional string: None and "" are falsy
Truthy(s) == s # None /\ s # <<>>

StartsWith(s, p) == Len(s) >= Len(p) /\ SubSeq(s, 1, Len(p)) = p

\* positions at which the literal p occurs in s
Occurrences(s, p) == {i \in 1..(Len(s) - Len(p) + 1) : SubSeq(s, i, i + Len(p) - 1) = p}

Contains(s, p) == Occurrences(s, p) # {}

Min(S) == CHOOSE x \in S : \A y \in S : x <= y
Max(S) == CHOOSE x \in S : \A y \in S : x >= y

\* str.strip() for the whitespace of the model
RECURSIVE LStrip(_)
LStrip(s) == IF s # <<>> /\ Head(s) \in Whitespace THEN LStrip(Tail(s)) ELSE s
RECURSIVE RStrip(_)
RStrip(s) == IF s # <<>> /\ s[Len(s)] \in Whitespace
             THEN RStrip(SubSeq(s, 1, Len(s) - 1)) ELSE s
Strip(s) == RStrip(LStrip(s))

-----------------------------------------------------------------------------
(* Identity resolver: extract_asin_from_url *)

ASIN_LEN == 10
DP == <<"/","d","p","/">>
GP_PRODUCT == <<"/","g","p","/","p","r","o","d","u","c","t","/">>

\* positions where marker followed by ASIN_LEN characters of [A-Z0-9] occurs
CodeMatches(url, marker) ==
    {i \in Occurrences(url, marker) :
        /\ i + Len(marker) + ASIN_LEN - 1 <= Len(url)
        /\ \A j \in 0..(ASIN_LEN - 1) : url[i + Len(marker) + j] \in UpperAlnum}

\* group(1) of the leftmost match at position i
CodeAt(url, marker, i) == SubSeq(url, i + Len(marker), i + Len(marker) + ASIN_LEN - 1)

\* re.search(marker + "([A-Z0-9]{10})", url): group(1) of the leftmost match or None
SearchCode(url, marker) ==
    IF CodeMatches(url, marker) = {} THEN None
    ELSE CodeAt(url, marker, Min(CodeMatches(url, marker)))

\* faulty variant: the character class also admits lowercase letters
extract_asin_from_url_anycase(url) ==
    LET hits == {i \in Occurrences(url, DP) :
                    /\ i + Len(DP) + ASIN_LEN - 1 <= Len(url)
                    /\ \A j \in 0..(ASIN_LEN - 1) :
                          url[i + Len(DP) + j] \in UpperAlnum \cup {"a","b","x"}}
    IN  IF hits # {} THEN CodeAt(url, DP, Min(hits)) ELSE SearchCode(url, GP_PRODUCT)

\* import_ranking.py: the /dp/ pattern first, then the /gp/product/ pattern
extract_asin_from_url(url) ==
    IF SearchCode(url, DP) # None THEN SearchCode(url, DP)
    ELSE SearchCode(url, GP_PRODUCT)

\* validate_data.py: one search over the alternation, leftmost match wins
validate_extract_asin_from_url(url) ==
    LET all == CodeMatches(url, DP) \cup CodeMatches(url, GP_PRODUCT)
    IN  IF all = {} THEN None
        ELSE LET i == Min(all)
             IN  IF i \in CodeMatches(url, DP) THEN CodeAt(url, DP, i)
                 ELSE CodeAt(url, GP_PRODUCT, i)

-----------------------------------------------------------------------------
(* Integers as text: int(...) and str(...) of get_next_id *)

DigitChars == <<"0","1","2","3","4","5","6","7","8","9">>
DigitVal(c) == (CHOOSE n \in 1..10 : DigitChars[n] = c) - 1

\* the part of an int() literal after surrounding whitespace and one sign
IntBody(s) ==
    LET t == Strip(s)
    IN  IF t # <<>> /\ Head(t) \in {"+", "-"} THEN Tail(t) ELSE t

\* int(s) does not raise ValueError
IsIntLiteral(s) == IntBody(s) # <<>> /\ \A i \in 1..Len(IntBody(s)) : IntBody(s)[i] \in Digit

RECURSIVE DigitsValue(_)
DigitsValue(d) ==
    IF d = <<>> THEN 0
    ELSE 10 * DigitsValue(SubSeq(d, 1, Len(d) - 1)) + DigitVal(d[Len(d)])

\* int(s), for s with IsIntLiteral(s)
IntOf(s) ==
    IF Strip(s) # <<>> /\ Head(Strip(s)) = "-" THEN 0 - DigitsValue(IntBody(s))
    ELSE DigitsValue(IntBody(s))

\* str(n)
RECURSIVE StrOf(_)
StrOf(n) ==
    IF n < 0 THEN <<"-">> \o StrOf(0 - n)
    ELSE IF n < 10 THEN <<DigitChars[n + 1]>>
    ELSE StrOf(n \div 10) \o <<DigitChars[(n % 10) + 1]>>

-----------------------------------------------------------------------------
(* Catalog helpers of import_ranking.py *)

ASSOCIATE_TAG == <<"x","i","o","r","a","-","2","2">>
TAG_UNSET == <<"Y","O","U","R","_","I","D","_","H","E","R","E">>
AMAZON == <<"h","t","t","p","s",":","/","/","w","w","w",".","a","m","a","z","o","n",".","c","o",".","j","p">>
TAG_PARAM == <<"?","t","a","g","=">>

build_affiliate_url(asin) ==
    IF ASSOCIATE_TAG = TAG_UNSET THEN AMAZON \o DP \o asin
    ELSE AMAZON \o DP \o asin \o TAG_PARAM \o ASSOCIATE_TAG

\* faulty variant: the set is built from nothing, so no existing record is recognised
get_existing_asins_none(prods) == {}

get_existing_asins(prods) ==
    {extract_asin_from_url(prods[i].affiliateUrl) :
        i \in {j \in 1..Len(prods) :
                 /\ prods[j].affiliateUrl # <<>>
                 /\ extract_asin_from_url(prods[j].affiliateUrl) # None}}

get_next_id(prods) ==
    IF prods = <<>> THEN <<"1">>
    ELSE StrOf(Max({0} \cup {IntOf(prods[i].id) :
                        i \in {j \in 1..Len(prods) : IsIntLiteral(prods[j].id)}}) + 1)

-----------------------------------------------------------------------------
(* Listing extractor: one container element of a ranking page.              *)
(* An element carries what BeautifulSoup's lookups inside it return:        *)
(*   tag, cls        its tag name and class attribute                       *)
(*   data_asin       its data-asin attribute (None when absent)             *)
(*   links           its <a> descendants in document order:                 *)
(*                   [href, span (text of the first nested span or None),   *)
(*                    text]                                                 *)
(*   has_img, alt, data_src, src   its first <img> and that tag's attributes*)
(*   h2              text of its first <h2> (None when absent)              *)
(*   text_normal     texts of the descendants of class a-text-normal        *)
(*   zg_texts        texts of the descendants of class zg-title or zg-item  *)

ZG_FACEOUT == <<"z","g","-","g","r","i","d","-","g","e","n","e","r","a","l","-","f","a","c","e","o","u","t">>
ZG_ITEM == <<"z","g","-","i","t","e","m">>
ZG_IMMERSION == <<"z","g","-","i","t","e","m","-","i","m","m","e","r","s","i","o","n">>
HTTPS_COLON == <<"h","t","t","p","s",":">>
DEFAULT_IMAGE == <<"h","t","t","p","s",":","/","/","i","m","a","g","e","s",".","u","n","s","p","l","a","s","h",".","c","o","m","/","p","h","o","t","o","-","1","5","6","0","4","7","2","3","5","4","-","b","3","3","f","f","0","c","4","4","a","4","3","?","w","=","4","0","0","&","h","=","3","0","0","&","f","i","t","=","c","r","o","p">>

NAME_MIN == 3
TEXT_NORMAL_MIN == 10

\* href=re.compile(r"/dp/|/gp/product/")
IsProductHref(href) == Contains(href, DP) \/ Contains(href, GP_PRODUCT)

\* element.find("a", href=...): index of the first product link, 0 when there is none
ProductLink(e) ==
    IF \E i \in 1..Len(e.links) : IsProductHref(e.links[i].href)
    THEN Min({i \in 1..Len(e.links) : IsProductHref(e.links[i].href)})
    ELSE 0

\* first text of the sequence whose stripped length exceeds n, or None
FirstLonger(texts, n) ==
    IF \E i \in 1..Len(texts) : Len(Strip(texts[i])) > n
    THEN Strip(texts[Min({i \in 1..Len(texts) : Len(Strip(texts[i])) > n})])
    ELSE None

extract_product_name(e) ==
    LET k == ProductLink(e)
        linkName == IF k = 0 THEN None
                    ELSE IF e.links[k].span # None THEN Strip(e.links[k].span)
                    ELSE Strip(e.links[k].text)
    IN  IF e.has_img /\ Truthy(e.alt) /\ Len(Strip(e.alt)) > NAME_MIN THEN Strip(e.alt)
        ELSE IF e.h2 # None /\ Len(Strip(e.h2)) > NAME_MIN THEN Strip(e.h2)
        ELSE IF linkName # None /\ Len(linkName) > NAME_MIN THEN linkName
        ELSE IF FirstLonger(e.text_normal, TEXT_NORMAL_MIN) # None
             THEN FirstLonger(e.text_normal, TEXT_NORMAL_MIN)
        ELSE FirstLonger(e.zg_texts, NAME_MIN)

\* scheme and host of a URL (what urljoin keeps of the base for a root-relative path)
Origin(url) ==
    LET authority == Min(Occurrences(url, <<"/","/">>)) + 2
        slashes == {i \in authority..Len(url) : url[i] = "/"}
    IN  IF slashes = {} THEN url ELSE SubSeq(url, 1, Min(slashes) - 1)

extract_image_url(e, base_url) ==
    LET image_url == IF Truthy(e.data_src) THEN e.data_src ELSE e.src
    IN  IF e.has_img /\ Truthy(image_url)
        THEN IF StartsWith(image_url, <<"/","/">>) THEN HTTPS_COLON \o image_url
             ELSE IF StartsWith(image_url, <<"/">>) THEN Origin(base_url) \o image_url
             ELSE image_url
        ELSE DEFAULT_IMAGE

\* the ASIN a container is deduplicated by in scrape_ranking_page (lines 266-272)
DedupAsin(e) ==
    IF Truthy(e.data_asin) THEN e.data_asin
    ELSE IF ProductLink(e) # 0 THEN extract_asin_from_url(e.links[ProductLink(e)].href)
    ELSE None

\* the ASIN extract_product_from_element gives the candidate (lines 195-205)
ElementAsin(e) ==
    IF Truthy(e.data_asin) /\ Strip(e.data_asin) # <<>> THEN e.data_asin
    ELSE IF ProductLink(e) # 0 THEN extract_asin_from_url(e.links[ProductLink(e)].href)
    ELSE None

\* the candidate record as a one-element sequence, or <<>> for Python's None
extract_product_from_element(e, base_url) ==
    IF ~Truthy(ElementAsin(e)) THEN <<>>
    ELSE IF ~Truthy(extract_product_name(e)) THEN <<>>
    ELSE <<[asin |-> ElementAsin(e), name |-> extract_product_name(e),
            image_url |-> extract_image_url(e, base_url), price |-> 0]>>

IsDataAsinDiv(e) == e.tag = "div" /\ e.data_asin # None
IsZgDiv(e) == e.tag = "div" /\ (Contains(e.cls, ZG_FACEOUT) \/ Contains(e.cls, ZG_ITEM))
IsZgLi(e) == e.tag = "li" /\ Contains(e.cls, ZG_IMMERSION)

\* the three find_all passes, concatenated (lines 248-260)
product_elements(elems) ==
    SelectSeq(elems, IsDataAsinDiv) \o SelectSeq(elems, IsZgDiv) \o SelectSeq(elems, IsZgLi)

\* faulty variant: no seen_asins test, every container with an ASIN is kept
unique_elements_all(pool) ==
    SelectSeq(pool, LAMBDA e : Truthy(DedupAsin(e)))

\* lines 263-276: the containers whose dedup ASIN was not seen earlier in the pool
unique_elements(pool) ==
    LET keep == {i \in 1..Len(pool) :
                    /\ Truthy(DedupAsin(pool[i]))
                    /\ \A j \in 1..(i - 1) : DedupAsin(pool[j]) # DedupAsin(pool[i])}
        RECURSIVE Pick(_)
        Pick(i) == IF i > Len(pool) THEN <<>>
                   ELSE IF i \in keep THEN <<pool[i]>> \o Pick(i + 1) ELSE Pick(i + 1)
    IN  Pick(1)

\* faulty variant: the status code is not tested, the body of an error page is parsed
scrape_ranking_page_any_status(page) ==
    IF page.raised THEN <<>>
    ELSE LET uniq == unique_elements(product_elements(page.elems))
             RECURSIVE Emit(_)
             Emit(i) == IF i > Len(uniq) THEN <<>>
                        ELSE extract_product_from_element(uniq[i], page.url) \o Emit(i + 1)
         IN  Emit(1)

\* the candidates of a fetched page: page.raised when requests.get raised, else
\* page.status is the HTTP status code and page.elems the document
scrape_ranking_page(page) ==
    IF page.raised \/ page.status # 200 THEN <<>>
    ELSE LET uniq == unique_elements(product_elements(page.elems))
             RECURSIVE Emit(_)
             Emit(i) == IF i > Len(uniq) THEN <<>>
                        ELSE extract_product_from_element(uniq[i], page.url) \o Emit(i + 1)
         IN  Emit(1)

-----------------------------------------------------------------------------
(* Price extractor (update_prices.py).  A product page is the sequence of   *)
(* its elements in document order: [tag, id, cls, color, text], with color  *)
(* the data-a-color attribute.  No price is NoPrice (Python's None).        *)

NoPrice == -1

\* Python truthiness of an optional price: None and 0 are falsy
PriceFound(p) == p # NoPrice /\ p # 0

\* price_text.replace(",", "")
RECURSIVE RemoveCommas(_)
RemoveCommas(s) ==
    IF s = <<>> THEN <<>>
    ELSE IF Head(s) = "," THEN RemoveCommas(Tail(s))
    ELSE <<Head(s)>> \o RemoveCommas(Tail(s))

\* re.search(r"[\d,]+", t).group() for a text without commas: the first maximal digit run
FirstDigitRun(t) ==
    LET starts == {i \in 1..Len(t) : t[i] \in Digit}
        first == Min(starts)
        ends == {j \in first..Len(t) : \A k \in first..j : t[k] \in Digit}
    IN  IF starts = {} THEN <<>> ELSE SubSeq(t, first, Max(ends))

\* faulty variant: the separators are not removed before the search, and int() of a run
\* with commas raises ValueError
parse_price_keep_commas(price_text) ==
    LET starts == {i \in 1..Len(price_text) : price_text[i] \in Digit \cup {","}}
    IN  IF starts = {} THEN NoPrice
        ELSE IF \E i \in 1..Len(price_text) : price_text[i] = "," THEN NoPrice
        ELSE DigitsValue(FirstDigitRun(price_text))

parse_price(price_text) ==
    LET run == FirstDigitRun(RemoveCommas(price_text))
    IN  IF run = <<>> THEN NoPrice ELSE DigitsValue(RemoveCommas(run))

IsOurPrice(e) == e.id = "priceblock_ourprice"
IsDealPrice(e) == e.id = "priceblock_dealprice"
IsPriceWhole(e) == e.cls = "a-price-whole"
IsPriceWholeSpan(e) == e.tag = "span" /\ e.cls = "a-price-whole"
IsColorPrice(e) == e.color = "price"

\* soup.find(...): index of the first element of doc among the matching ones,
\* 0 when there is none
FindFirst(matching) == IF matching = {} THEN 0 ELSE Min(matching)

OurPrices(doc) == {i \in 1..Len(doc) : IsOurPrice(doc[i])}
DealPrices(doc) == {i \in 1..Len(doc) : IsDealPrice(doc[i])}
PriceWholes(doc) == {i \in 1..Len(doc) : IsPriceWhole(doc[i])}
ColorPrices(doc) == {i \in 1..Len(doc) : IsColorPrice(doc[i])}

\* parse_price of the stripped text of element i, NoPrice when i = 0
PriceOf(doc, i) == IF i = 0 THEN NoPrice ELSE parse_price(Strip(doc[i].text))

extract_price_from_html(doc) ==
    LET p1 == IF FindFirst(OurPrices(doc)) # 0 THEN FindFirst(OurPrices(doc))
              ELSE FindFirst(DealPrices(doc))
        p2 == FindFirst(PriceWholes(doc))
        spans == {i \in 1..Len(doc) :
                    IsPriceWholeSpan(doc[i]) /\ PriceFound(PriceOf(doc, i))}
        p4 == FindFirst(ColorPrices(doc))
    IN  IF PriceFound(PriceOf(doc, p1)) THEN PriceOf(doc, p1)
        ELSE IF PriceFound(PriceOf(doc, p2)) THEN PriceOf(doc, p2)
        ELSE IF spans # {} THEN PriceOf(doc, Min(spans))
        ELSE IF PriceFound(PriceOf(doc, p4)) THEN PriceOf(doc, p4)
        ELSE NoPrice

\* resp is what requests.get did: resp.raised when it raised, else the HTTP status
\* code and the document
scrape_price(resp) ==
    IF ~resp.raised /\ resp.status = 200 THEN extract_price_from_html(resp.doc)
    ELSE NoPrice

-----------------------------------------------------------------------------
(* Fallback degradation and the per-record update of update_prices *)

PRICE_FLOOR == 1000
PRICE_DELTA == 100
HISTORY_LIMIT == 30
REFRESH_LIMIT == 50

\* the values random.randint(-100, 100) can return
PriceChanges == (0 - PRICE_DELTA)..PRICE_DELTA

\* faulty variant: the floor is applied as a ceiling
fallback_random_price_min(current_price, price_change) ==
    Min({PRICE_FLOOR, current_price + price_change})

\* price_change is the value random.randint(-100, 100) returned
fallback_random_price(current_price, price_change) ==
    Max({PRICE_FLOOR, current_price + price_change})

\* faulty variant: the slice keeps the first 30 entries, [:30]
TrimHistory_head(history) ==
    IF Len(history) > HISTORY_LIMIT THEN SubSeq(history, 1, HISTORY_LIMIT) ELSE history

\* lines 162-163: priceHistory[-30:] when longer than 30
TrimHistory(history) ==
    IF Len(history) > HISTORY_LIMIT
    THEN SubSeq(history, Len(history) - HISTORY_LIMIT + 1, Len(history))
    ELSE history

\* faulty variant: currentPrice is left at the old price
UpdateProduct_stale(product, new_price, now) ==
    [product EXCEPT
        !.priceHistory = TrimHistory(Append(@, [date |-> now, price |-> new_price]))]

\* lines 151-163: set currentPrice, append the entry, trim
UpdateProduct(product, new_price, now) ==
    [product EXCEPT
        !.currentPrice = new_price,
        !.priceHistory = TrimHistory(Append(@, [date |-> now, price |-> new_price]))]

\* faulty variant: the domain prefix is not tested
IsLiveUrl_any(url) == Truthy(url)

\* a record's URL is fetched (line 137)
IsLiveUrl(url) == Truthy(url) /\ StartsWith(url, AMAZON)

\* lines 366-379: the record import_ranking creates for a candidate
NewProduct(prods, info, now) ==
    [id |-> get_next_id(prods),
     name |-> info.name,
     currentPrice |-> info.price,
     priceHistory |-> <<[date |-> now, price |-> info.price]>>,
     affiliateUrl |-> build_affiliate_url(info.asin),
     imageUrl |-> info.image_url]

\* the registration loop (lines 353-385) over the candidates of one page, on the
\* loop state st = [products, asins]
RECURSIVE MergeCandidates(_, _, _)
MergeCandidates(st, cands, now) ==
    IF cands = <<>> THEN st
    ELSE IF Head(cands).asin \in st.asins THEN MergeCandidates(st, Tail(cands), now)
    ELSE MergeCandidates(
            [products |-> Append(st.products, NewProduct(st.products, Head(cands), now)),
             asins |-> st.asins \cup {Head(cands).asin}],
            Tail(cands), now)

-----------------------------------------------------------------------------
(* Inputs: identity codes, ranking pages, product pages, seed catalogs *)

MaxRuns == 2      \* runs per behaviour

K1 == <<"B","0","A","A","A","A","A","A","A","1">>
K2 == <<"B","0","A","A","A","A","A","A","A","2">>
K3 == <<"4","0","0","0","0","0","0","0","0","3">>
LOWER == <<"b","0","a","a","a","a","a","a","a","4">>
BLANKS == <<" "," ">>
ITEM_A == <<"I","t","e","m"," ","A">>
ITEM_B == <<"I","t","e","m"," ","B">>
SHORT == <<"a","b">>
REF == <<"/","r","e","f","=","z","g">>
IMG_ROOT == <<"/","i","m","g","/","a",".","j","p","g">>
IMG_PROTO == <<"/","/","c","d","n",".","e","x","a","m","p","l","e",".","c","o","m","/","b",".","j","p","g">>
RANKING_URL == <<"h","t","t","p","s",":","/","/","w","w","w",".","a","m","a","z","o","n",".","c","o",".","j","p","/","g","p","/","b","e","s","t","s","e","l","l","e","r","s">>
DUMMY_URL == <<"h","t","t","p","s",":","/","/","e","x","a","m","p","l","e",".","c","o","m","/","i","t","e","m">>
DUMMY_NAME == <<"D","u","m","m","y">>

\* a container: tag, class, data-asin, href of its one link (None: no link), image alt
\* (None: no image), image src
Container(tag, cls, data_asin, href, alt, src) ==
    [tag |-> tag, cls |-> cls, data_asin |-> data_asin,
     links |-> IF href = None THEN <<>>
               ELSE <<[href |-> href, span |-> None, text |-> SHORT]>>,
     has_img |-> alt # None, alt |-> alt, data_src |-> None, src |-> src,
     h2 |-> None, text_normal |-> <<>>, zg_texts |-> <<>>]

\* div[data-asin=code] with a name
AttrDiv(code, name) == Container("div", <<>>, code, None, name, IMG_ROOT)
\* div.zg-item without data-asin, the code in its product link
LinkDiv(code, name) == Container("div", ZG_ITEM, None, DP \o code \o REF, name, IMG_PROTO)
\* li.zg-item-immersion, the code in a /gp/product/ link
LinkLi(code, name) == Container("li", ZG_IMMERSION, None, GP_PRODUCT \o code, name, IMG_ROOT)
\* div[data-asin="  "] with the code in its product link
BlankAttrDiv(code, name) == Container("div", <<>>, BLANKS, DP \o code, name, IMG_ROOT)
\* div[data-asin=code] in which no name source qualifies
NamelessDiv(code) == Container("div", <<>>, code, None, None, None)
\* div[data-asin=""] without a link
EmptyDiv == Container("div", <<>>, <<>>, None, ITEM_A, IMG_ROOT)

Elements == {AttrDiv(K1, ITEM_A), LinkDiv(K1, ITEM_B), LinkLi(K2, ITEM_B),
             BlankAttrDiv(K1, ITEM_A), NamelessDiv(K2), AttrDiv(K2, ITEM_B),
             AttrDiv(LOWER, ITEM_A), AttrDiv(K1 \o <<"X">>, ITEM_B), EmptyDiv}

OkPage(elems) == [url |-> RANKING_URL, raised |-> FALSE, status |-> 200, elems |-> elems]

\* the ranking pages of the pipeline runs: as fetched
RankingPages ==
    {[url |-> RANKING_URL, raised |-> TRUE, status |-> 0, elems |-> <<>>],
     [url |-> RANKING_URL, raised |-> FALSE, status |-> 503, elems |-> <<>>],
     [url |-> RANKING_URL, raised |-> FALSE, status |-> 404,
      elems |-> <<AttrDiv(K1, ITEM_A)>>],
     OkPage(<<AttrDiv(K1, ITEM_A), LinkDiv(K1, ITEM_B)>>),
     OkPage(<<BlankAttrDiv(K1, ITEM_A), AttrDiv(K1, ITEM_B)>>),
     OkPage(<<NamelessDiv(K2), AttrDiv(K2, ITEM_B)>>),
     OkPage(<<LinkLi(K2, ITEM_B), EmptyDiv>>),
     OkPage(<<AttrDiv(LOWER, ITEM_A)>>),
     OkPage(<<AttrDiv(K1 \o <<"X">>, ITEM_B)>>)}

FailedPages == {p \in RankingPages : p.raised \/ p.status # 200}

\* the contents of categories.txt, each URL with what its fetch returns: no URL,
\* one page, a failed page before or after a page, a page and a page with the same
\* product, a failed page before or after those two
CategoryLists ==
    {<<>>} \cup {<<p>> : p \in RankingPages}
           \cup {<<f, OkPage(<<AttrDiv(K1, ITEM_A), LinkDiv(K1, ITEM_B)>>)>> : f \in FailedPages}
           \cup {<<OkPage(<<LinkLi(K2, ITEM_B), EmptyDiv>>), f>> : f \in FailedPages}
           \cup {<<OkPage(<<AttrDiv(K2, ITEM_B)>>), OkPage(<<LinkLi(K2, ITEM_B), EmptyDiv>>)>>}
           \cup {<<f, OkPage(<<AttrDiv(K2, ITEM_B)>>),
                    OkPage(<<LinkLi(K2, ITEM_B), EmptyDiv>>)>> : f \in FailedPages}
           \cup {<<OkPage(<<AttrDiv(K2, ITEM_B)>>),
                    OkPage(<<LinkLi(K2, ITEM_B), EmptyDiv>>), f>> : f \in FailedPages}

PriceEl(tag, id, cls, color, text) ==
    [tag |-> tag, id |-> id, cls |-> cls, color |-> color, text |-> text]

OkResponse(doc) == [raised |-> FALSE, status |-> 200, doc |-> doc]

PRICE_1980 == <<"Y","1",",","9","8","0">>
PRICE_ZERO == <<"Y","0">>
NOT_A_PRICE == <<"N","/","A">>

\* what the fetch of a product page returns in a refresh run
PriceResponses ==
    {[raised |-> TRUE, status |-> 0, doc |-> <<>>],
     [raised |-> FALSE, status |-> 503, doc |-> <<>>],
     OkResponse(<<PriceEl("div", "title", "", "", NOT_A_PRICE)>>),
     OkResponse(<<PriceEl("span", "", "a-price-whole", "", PRICE_ZERO)>>),
     OkResponse(<<PriceEl("span", "priceblock_ourprice", "", "", PRICE_1980)>>)}

\* the random.randint draws followed in the pipeline runs (one value per run)
PriceChangeSamples == {0 - PRICE_DELTA, 0, 1, PRICE_DELTA}

Dummy(i) ==
    [id |-> StrOf(i), name |-> DUMMY_NAME, currentPrice |-> 500,
     priceHistory |-> <<[date |-> 1, price |-> 500]>>,
     affiliateUrl |-> DUMMY_URL, imageUrl |-> HTTPS_COLON \o IMG_PROTO]

\* a record without a listing URL
Unlinked(i) ==
    [id |-> StrOf(i), name |-> DUMMY_NAME, currentPrice |-> 1500,
     priceHistory |-> <<[date |-> 1, price |-> 1500]>>,
     affiliateUrl |-> <<>>, imageUrl |-> HTTPS_COLON \o IMG_PROTO]

\* a record of an earlier discovery run, n refreshes later
Known(i, code, n) ==
    [id |-> StrOf(i), name |-> ITEM_B, currentPrice |-> 2000 + n,
     priceHistory |-> [k \in 1..n |-> [date |-> k, price |-> 2000 + k]],
     affiliateUrl |-> build_affiliate_url(code), imageUrl |-> HTTPS_COLON \o IMG_PROTO]

ListFile(recs) == [status |-> "list", recs |-> recs]
AbsentFile == [status |-> "absent", recs |-> <<>>]
\* opened for writing and not closed: recs are the records that reached the disk
PartialFile(recs) == [status |-> "partial", recs |-> recs]

\* a file that holds JSON other than a list of records: {} ("empty_dict"), an object
\* with members ("dict"), "" ("empty_string"), null ("null"), [1] ("scalars")
OtherJson(kind) == [status |-> kind, recs |-> <<>>]

\* the values that are not lists and yet iterate as nothing, test false and slice
\* as the scripts use them
EmptyValues == {"empty_dict", "empty_string"}

\* the values on which the first use by any of the scripts raises
UnusableValues == {"dict", "null", "scalars"}

SeedCatalogs ==
    {AbsentFile,
     PartialFile(<<>>),
     OtherJson("empty_dict"), OtherJson("dict"), OtherJson("empty_string"),
     OtherJson("null"), OtherJson("scalars"),
     ListFile(<<Dummy(1), Known(2, K3, HISTORY_LIMIT), Unlinked(3)>>),
     ListFile([i \in 1..(REFRESH_LIMIT + 1) |->
                 IF i <= REFRESH_LIMIT THEN Dummy(i) ELSE Known(i, K2, HISTORY_LIMIT - 1)])}

-----------------------------------------------------------------------------
(* The pipeline: discovery runs (import_ranking) and refresh runs           *)
(* (update_prices) as steps between which the process can be terminated.    *)
(* The memory of a process is gone when it exits.                           *)

\* no record processed yet: fetched (the page was requested), got_page (the request
\* returned status 200), scraped (what scrape_price returned), fallback
\* (fallback_random_price was called)
NoUnit == [fetched |-> FALSE, got_page |-> FALSE, scraped |-> NoPrice, fallback |-> FALSE]

\* nothing processed yet
NoLog == [units |-> <<>>, fetched |-> <<>>, sleeps |-> <<>>]

\* no announcement run takes place
AnnounceOff == posted_log = [status |-> "absent", entries |-> <<>>] /\ posts = <<>> /\ utcnow = 0

PipelineIdle == call = [fn |-> "none"] /\ ret = <<>>

Init ==
    /\ file \in SeedCatalogs
    /\ pc = "idle"
    /\ products = <<>>
    /\ existing_asins = {}
    /\ urls = <<>>
    /\ idx = 0
    /\ randint = 0
    /\ unit = NoUnit
    /\ log = NoLog
    /\ clock = HISTORY_LIMIT
    /\ runs = 0
    /\ preRun = file
    /\ outcome = "none"
    /\ assigned = {file.recs[i].id : i \in 1..Len(file.recs)}
    /\ AnnounceOff
    /\ PipelineIdle

\* the process exits
Exit(how) ==
    /\ pc' = "idle"
    /\ outcome' = how
    /\ products' = <<>>
    /\ existing_asins' = {}
    /\ urls' = <<>>
    /\ idx' = 0
    /\ randint' = 0
    /\ unit' = NoUnit
    /\ log' = NoLog

\* a process starts
Launch ==
    /\ pc = "idle"
    /\ runs < MaxRuns
    /\ runs' = runs + 1
    /\ clock' = clock + 1
    /\ preRun' = file

\* import_ranking up to the page loop (lines 308-336); cats is categories.txt
StartDiscovery(cats) ==
    /\ Launch
    /\ IF file.status = "partial" THEN Exit("load_error")     \* json.load raises
       ELSE IF file.status \in UnusableValues
            THEN Exit("crashed")                  \* get_existing_asins raises (line 322)
       ELSE IF cats = <<>> THEN Exit("no_urls")               \* return of line 330
       ELSE /\ products' = IF file.status = "absent" THEN <<>> ELSE file.recs
            /\ existing_asins' = get_existing_asins(products')
            /\ urls' = cats
            /\ idx' = 1
            /\ pc' = "d_page"
            /\ outcome' = "running"
            /\ UNCHANGED <<randint, unit, log>>
    /\ UNCHANGED <<file, assigned, announceVars, call, ret>>

\* faulty variant: the delay also follows the last page
SleepsAfter_always(i, n) == TRUE

\* random_sleep follows unit i of n (lines 348-349 and 388-389)
SleepsAfter(i, n) == i < n

\* one iteration of the page loop (lines 339-389); products is {} or "" when the
\* file held that, and products.append then raises AttributeError (line 381)
DiscoverPage ==
    /\ pc = "d_page"
    /\ IF preRun.status \in EmptyValues /\ scrape_ranking_page(urls[idx]) # <<>>
       THEN /\ Exit("crashed")
            /\ UNCHANGED <<file, clock, runs, preRun, assigned, announceVars, call, ret>>
       ELSE /\ log' = [units |-> Append(log.units, idx),
                       fetched |-> Append(log.fetched, idx),
                       sleeps |-> IF SleepsAfter(idx, Len(urls))
                                  THEN Append(log.sleeps, idx)
                                  ELSE log.sleeps]
            /\ LET st == MergeCandidates([products |-> products, asins |-> existing_asins],
                                         scrape_ranking_page(urls[idx]), clock)
               IN  /\ products' = st.products
                   /\ existing_asins' = st.asins
            /\ idx' = idx + 1
            /\ pc' = IF idx < Len(urls) THEN "d_page" ELSE "d_open"
            /\ UNCHANGED <<file, urls, randint, unit, clock, runs, preRun, outcome,
                         assigned, announceVars, call, ret>>

\* open(DATA_FILE, "w") truncates the file (line 392)
DiscoveryOpen ==
    /\ pc = "d_open"
    /\ file' = PartialFile(<<>>)
    /\ pc' = "d_dump"
    /\ UNCHANGED <<products, existing_asins, urls, idx, randint, unit, log, clock, runs,
                 preRun, outcome, assigned, announceVars, call, ret>>

\* faulty variant: the records of this run are written ahead of the loaded ones
DiscoveryDump_new_first ==
    /\ pc = "d_dump"
    /\ file' = IF preRun.status \in EmptyValues THEN preRun
               ELSE ListFile(SubSeq(products, Len(preRun.recs) + 1, Len(products))
                               \o SubSeq(products, 1, Len(preRun.recs)))
    /\ assigned' = assigned \cup {products[i].id : i \in 1..Len(products)}
    /\ Exit("discovered")
    /\ UNCHANGED <<clock, runs, preRun, announceVars, call, ret>>

\* json.dump, the close of the with block, and the exit (lines 393-403)
DiscoveryDump ==
    /\ pc = "d_dump"
    /\ file' = IF preRun.status \in EmptyValues THEN preRun ELSE ListFile(products)
    /\ assigned' = assigned \cup {products[i].id : i \in 1..Len(products)}
    /\ Exit("discovered")
    /\ UNCHANGED <<clock, runs, preRun, announceVars, call, ret>>

\* update_prices up to the record loop (lines 121-128)
StartRefresh ==
    /\ Launch
    /\ IF file.status \in {"absent", "partial"}
       THEN Exit("load_error")                    \* open or json.load raises
       ELSE IF file.status \in UnusableValues \cup {"empty_dict"}
            THEN Exit("crashed")                  \* products[:50] or product[...] raises
       ELSE /\ products' = file.recs
            /\ idx' = 1
            /\ pc' = IF file.recs = <<>> THEN "r_open" ELSE "r_unit"
            /\ outcome' = "running"
            /\ randint' \in PriceChangeSamples
            /\ UNCHANGED <<existing_asins, urls, unit, log>>
    /\ UNCHANGED <<file, assigned, announceVars, call, ret>>

\* the new price of one record: scraped when the URL is live and the scrape
\* found a price, else the fallback (lines 132-149)
NewPrice(product, resp, price_change) ==
    IF IsLiveUrl(product.affiliateUrl) /\ scrape_price(resp) # NoPrice
    THEN scrape_price(resp)
    ELSE fallback_random_price(product.currentPrice, price_change)

\* faulty variant: the loop runs over the whole catalog
MoreUnits_all(i, n) == i < n

\* the loop over products[:50] has a unit after unit i of a catalog of n (lines 128, 131)
MoreUnits(i, n) == i < n /\ i < REFRESH_LIMIT

\* line 147: new_price is None after the scrape attempt
FallsBack(product, resp) ==
    ~(IsLiveUrl(product.affiliateUrl) /\ scrape_price(resp) # NoPrice)

\* one iteration of the record loop (lines 131-165) in memory; resp is what the
\* fetch of the record's page returns
UnitEffect(resp) ==
    /\ products' = [products EXCEPT ![idx] =
                       UpdateProduct(@, NewPrice(@, resp, randint), clock)]
    /\ unit' = IF IsLiveUrl(products[idx].affiliateUrl)
               THEN [fetched |-> TRUE,
                     got_page |-> ~resp.raised /\ resp.status = 200,
                     scraped |-> scrape_price(resp),
                     fallback |-> FallsBack(products[idx], resp)]
               ELSE [NoUnit EXCEPT !.fallback = FallsBack(products[idx], resp)]
    /\ log' = [log EXCEPT
                 !.units = Append(@, idx),
                 !.fetched = IF IsLiveUrl(products[idx].affiliateUrl) THEN Append(@, idx)
                             ELSE @]
    /\ idx' = idx + 1
    /\ pc' = IF MoreUnits(idx, Len(products)) THEN "r_unit" ELSE "r_open"

\* faulty variant: the file is rewritten after every record
RefreshUnit_persisting ==
    /\ pc = "r_unit"
    /\ \E resp \in PriceResponses : UnitEffect(resp)
    /\ file' = ListFile(products')
    /\ UNCHANGED <<existing_asins, urls, randint, clock, runs, preRun, outcome, assigned,
                 announceVars, call, ret>>

RefreshUnit ==
    /\ pc = "r_unit"
    /\ \E resp \in PriceResponses : UnitEffect(resp)
    /\ UNCHANGED <<file, existing_asins, urls, randint, clock, runs, preRun, outcome,
                 assigned, announceVars, call, ret>>

\* open(DATA_FILE, "w") truncates the file (line 168)
RefreshOpen ==
    /\ pc = "r_open"
    /\ file' = PartialFile(<<>>)
    /\ pc' = "r_dump"
    /\ UNCHANGED <<products, existing_asins, urls, idx, randint, unit, log, clock, runs,
                 preRun, outcome, assigned, announceVars, call, ret>>

\* json.dump, the close of the with block, and the exit (lines 169-171)
RefreshDump ==
    /\ pc = "r_dump"
    /\ file' = IF preRun.status \in EmptyValues THEN preRun ELSE ListFile(products)
    /\ Exit("refreshed")
    /\ UNCHANGED <<clock, runs, preRun, assigned, announceVars, call, ret>>

\* fix_data.py

DUMMY_IDS == {<<"1">>, <<"2">>, <<"3">>}

\* the loop of fix_data (lines 68-117): the records with a dummy id are dropped and
\* the affiliateUrl of the others is stripped; a record without affiliateUrl has no
\* url field to regenerate it from
RECURSIVE fixed_products(_)
fixed_products(prods) ==
    IF prods = <<>> THEN <<>>
    ELSE IF Head(prods).id \in DUMMY_IDS THEN fixed_products(Tail(prods))
    ELSE <<[Head(prods) EXCEPT !.affiliateUrl = Strip(@)]>> \o fixed_products(Tail(prods))

\* fix_data up to its persist step (lines 49-117)
StartFix ==
    /\ Launch
    /\ IF file.status = "absent" THEN Exit("no_file")           \* return of line 52
       ELSE IF file.status = "partial" THEN Exit("load_error")  \* json.load raises
       ELSE IF file.status \in UnusableValues
            THEN Exit("crashed")                  \* len(products) or product.get raises
       ELSE /\ products' = fixed_products(file.recs)
            /\ pc' = "f_open"
            /\ outcome' = "running"
            /\ UNCHANGED <<existing_asins, urls, idx, randint, unit, log>>
    /\ UNCHANGED <<file, assigned, announceVars, call, ret>>

\* open(DATA_FILE, "w") truncates the file (line 120)
FixOpen ==
    /\ pc = "f_open"
    /\ file' = PartialFile(<<>>)
    /\ pc' = "f_dump"
    /\ UNCHANGED <<products, existing_asins, urls, idx, randint, unit, log, clock, runs,
                 preRun, outcome, assigned, announceVars, call, ret>>

\* json.dump, the close of the with block, and the exit (lines 121-132)
FixDump ==
    /\ pc = "f_dump"
    /\ file' = ListFile(products)
    /\ Exit("fixed")
    /\ UNCHANGED <<clock, runs, preRun, assigned, announceVars, call, ret>>

\* the process is terminated; during json.dump any number of records has reached
\* the disk
Terminate ==
    /\ pc # "idle"
    /\ Exit(pc)
    /\ IF pc \in {"d_dump", "r_dump", "f_dump"}
       THEN \E k \in 0..Len(products) : file' = PartialFile(SubSeq(products, 1, k))
       ELSE file' = file
    /\ UNCHANGED <<clock, runs, preRun, assigned, announceVars, call, ret>>

Next ==
    \/ \E cats \in CategoryLists : StartDiscovery(cats)
    \/ DiscoverPage
    \/ DiscoveryOpen
    \/ DiscoveryDump
    \/ StartRefresh
    \/ RefreshUnit
    \/ RefreshOpen
    \/ RefreshDump
    \/ StartFix
    \/ FixOpen
    \/ FixDump
    \/ Terminate

Spec == Init /\ [][Next]_vars

-----------------------------------------------------------------------------
(* Properties of the pipeline runs *)

\* the identity code a record was created from: the inverse of build_affiliate_url,
\* and for a URL of another shape the code the resolver finds in it
ExternalKey(rec) ==
    LET u == rec.affiliateUrl
        pre == AMAZON \o DP
        suf == TAG_PARAM \o ASSOCIATE_TAG
    IN  IF /\ StartsWith(u, pre)
           /\ Len(u) >= Len(pre) + Len(suf)
           /\ SubSeq(u, Len(u) - Len(suf) + 1, Len(u)) = suf
        THEN SubSeq(u, Len(pre) + 1, Len(u) - Len(suf))
        ELSE extract_asin_from_url(u)

DistinctKeys(recs) ==
    \A i, j \in 1..Len(recs) :
        (i < j /\ ExternalKey(recs[i]) # None) => ExternalKey(recs[i]) # ExternalKey(recs[j])

\* a record's currentPrice is the price of its latest history entry
PriceIsLatest(rec) ==
    /\ rec.priceHistory # <<>>
    /\ rec.currentPrice = rec.priceHistory[Len(rec.priceHistory)].price

\* the records a refresh run over recs processes
Prefix(recs) == 1..(IF Len(recs) < REFRESH_LIMIT THEN Len(recs) ELSE REFRESH_LIMIT)

Abs(n) == IF n < 0 THEN 0 - n ELSE n

\* C1: a discovery run never decreases the number of records and never leaves two
\* records of the catalog with the same externalKey (so a second run over the same
\* pages adds nothing the first run added).
C1_DiscoveryKeepsKeysDistinct ==
    outcome = "discovered" =>
        /\ Len(file.recs) >= Len(preRun.recs)
        /\ (preRun.status # "list" \/ DistinctKeys(preRun.recs)) => DistinctKeys(file.recs)

\* C2: whenever no run is in progress (a run has completed or was terminated at any
\* point), the catalog on disk is the complete pre-run catalog or a complete
\* catalog, never a truncated or partially written one.
C2_PersistIsAtomic ==
    pc = "idle" => (file = preRun \/ file.status = "list")

\* C3: up to the final persist step of a discovery or refresh run, and after a run
\* that was terminated or returned before that step, the catalog on disk is the
\* pre-run catalog, whatever was added or re-priced in memory.
C3_NoWriteBeforePersist ==
    (\/ pc \in {"d_page", "d_open", "r_unit", "r_open"}
     \/ outcome \in {"d_page", "d_open", "r_unit", "r_open", "load_error", "no_urls"})
        => file = preRun

\* every unit of a refresh run is processed, the new prices are in memory only
C3_Witness ==
    /\ pc = "r_open"
    /\ products # preRun.recs

\* C4: after a completed refresh run every record of the catalog has currentPrice
\* equal to the price of the last element of its priceHistory, and so has every
\* record a completed discovery run created.
C4_CurrentPriceIsLatest ==
    /\ outcome = "refreshed" => \A i \in 1..Len(file.recs) : PriceIsLatest(file.recs[i])
    /\ outcome = "discovered" =>
          \A i \in (Len(preRun.recs) + 1)..Len(file.recs) : PriceIsLatest(file.recs[i])

\* a refresh run completed and changed the price of a record
C4_Witness ==
    /\ outcome = "refreshed"
    /\ \E i \in 1..Len(file.recs) : file.recs[i].currentPrice # preRun.recs[i].currentPrice

\* C5: no priceHistory ever exceeds 30 entries, and a completed refresh run leaves,
\* for each record it processed, the most recent entries of the old history in their
\* order followed by the one new entry: a full history lost exactly its oldest entry.
C5_HistoryBounded ==
    /\ \A i \in 1..Len(products) : Len(products[i].priceHistory) <= HISTORY_LIMIT
    /\ \A i \in 1..Len(file.recs) : Len(file.recs[i].priceHistory) <= HISTORY_LIMIT
    /\ outcome = "refreshed" =>
          \A i \in Prefix(preRun.recs) :
              LET old == preRun.recs[i].priceHistory
                  new == file.recs[i].priceHistory
              IN  /\ new[Len(new)] = [date |-> clock, price |-> file.recs[i].currentPrice]
                  /\ IF Len(old) < HISTORY_LIMIT
                     THEN SubSeq(new, 1, Len(new) - 1) = old
                     ELSE SubSeq(new, 1, Len(new) - 1) = Tail(old)

\* a refresh run completed on a record whose history was full
C5_Witness ==
    /\ outcome = "refreshed"
    /\ \E i \in Prefix(preRun.recs) : Len(preRun.recs[i].priceHistory) = HISTORY_LIMIT

\* the record the record loop has just processed, before and after
UnitBefore == preRun.recs[idx - 1]
UnitAfter == products[idx - 1]

\* the page of the record just processed was fetched and matched no price strategy
UnitUnmatched ==
    /\ pc \in {"r_unit", "r_open"}
    /\ idx > 1
    /\ unit.fetched /\ unit.got_page /\ unit.scraped = NoPrice

\* the record just processed got exactly one new history entry
OneNewEntry ==
    UnitAfter.priceHistory =
        TrimHistory(Append(UnitBefore.priceHistory,
                           [date |-> clock, price |-> UnitAfter.currentPrice]))

\* C7 as stated: a record whose page matches no price strategy gets exactly one new
\* entry, at most 100 away from its prior currentPrice, for every prior price.
C7_BoundedDeltaAnyPrice ==
    UnitUnmatched =>
        /\ OneNewEntry
        /\ Abs(UnitAfter.currentPrice - UnitBefore.currentPrice) <= PRICE_DELTA

\* C7 amended: exactly one new entry; at most 100 away from the prior currentPrice
\* when that is at least 900, and the floor 1000 when it is lower (as the zero price
\* of a freshly discovered record is).
C7_BoundedDeltaAboveFloor ==
    UnitUnmatched =>
        /\ OneNewEntry
        /\ IF UnitBefore.currentPrice >= PRICE_FLOOR - PRICE_DELTA
           THEN Abs(UnitAfter.currentPrice - UnitBefore.currentPrice) <= PRICE_DELTA
           ELSE UnitAfter.currentPrice = PRICE_FLOOR

\* an unmatched page for a record priced above the floor, and the price moved
C7_Witness ==
    /\ UnitUnmatched
    /\ UnitBefore.currentPrice >= PRICE_FLOOR - PRICE_DELTA
    /\ UnitAfter.currentPrice # UnitBefore.currentPrice

\* the record loop has just processed a record
UnitDone == pc \in {"r_unit", "r_open"} /\ idx > 1

\* the URL is not blank and is on the live-source domain
OnLiveDomain(url) ==
    /\ url # <<>>
    /\ Len(url) >= Len(AMAZON)
    /\ \A i \in 1..Len(AMAZON) : url[i] = AMAZON[i]

C15_FailedFetchSkipsUnit ==
    /\ (UnitDone /\ unit.fetched /\ ~unit.got_page) => UnitAfter = UnitBefore
    /\ pc = "r_open" => idx = Len(products) + 1 \/ idx = REFRESH_LIMIT + 1
    /\ pc = "d_open" =>
          /\ idx = Len(urls) + 1
          /\ (\A i \in 1..Len(urls) : urls[i] \in FailedPages) => products = preRun.recs

\* the page loop is running or has ended, and the pages it has processed
InDiscovery == pc \in {"d_page", "d_open", "d_dump"}
PagesDone == idx - 1

\* a page whose fetch failed, as if it had been fetched and had no container
AsEmptyPage(page) == IF page.raised \/ page.status # 200 THEN OkPage(<<>>) ELSE page

\* the catalog after the registration of the candidates of the pages, in order
RECURSIVE RunPages(_, _, _)
RunPages(st, pages, now) ==
    IF pages = <<>> THEN st
    ELSE RunPages(MergeCandidates(st, scrape_ranking_page(AsEmptyPage(Head(pages))), now),
                  Tail(pages), now)

\* C16: a page whose fetch fails (exception or non-200) yields no candidate and does
\* not end the page loop: every page is fetched exactly once, in order, the records
\* added are those the other pages add when the failed pages are empty pages, and
\* the loop leaves for the persist step after the last page only.
C16_FailedPageIsolated ==
    InDiscovery =>
        /\ log.fetched = [i \in 1..PagesDone |-> i]
        /\ products =
              RunPages([products |-> preRun.recs, asins |-> get_existing_asins(preRun.recs)],
                       SubSeq(urls, 1, PagesDone), clock).products
        /\ IF pc = "d_page" THEN idx <= Len(urls) ELSE idx = Len(urls) + 1

\* a page was registered after a failed page with a body, and the loop has ended
C16_Witness ==
    /\ pc = "d_open"
    /\ \E i \in 1..(Len(urls) - 1) : urls[i].status = 404 /\ urls[i].elems # <<>>
    /\ Len(products) > Len(preRun.recs)

\* C17: in a discovery run over N pages one delay follows each page but the last,
\* N - 1 in all, whether the page succeeded, failed or had only known products, and
\* no delay follows the last page.
C17_DelayBetweenFetches ==
    InDiscovery =>
        log.sleeps = [i \in 1..(IF pc = "d_page" THEN PagesDone ELSE Len(urls) - 1) |-> i]

\* three pages, the first failed, the last with a known product only: two delays
C17_Witness ==
    /\ pc = "d_open"
    /\ Len(urls) = 3
    /\ urls[1] \in FailedPages
    /\ Len(products) = Len(preRun.recs) + 1
    /\ log.sleeps = <<1, 2>>

\* rec is old with one more priceHistory entry, of this run, and that entry's price
OneEntryAdded(old, rec) ==
    /\ rec.priceHistory =
          TrimHistory(Append(old.priceHistory, [date |-> clock, price |-> rec.currentPrice]))
    /\ rec = [old EXCEPT !.currentPrice = rec.currentPrice,
                         !.priceHistory = rec.priceHistory]

\* C18: a refresh run over n records processes the first min(50, n) records, each
\* once and in catalog order, and appends one priceHistory entry to each; the records
\* after the prefix are written back unchanged and the persisted catalog has the
\* same n records in the same order.
C18_RefreshPrefixOnly ==
    /\ pc \in {"r_unit", "r_open", "r_dump"} =>
          /\ log.units = [i \in 1..(idx - 1) |-> i]
          /\ pc # "r_unit" => idx - 1 = Cardinality(Prefix(preRun.recs))
          /\ Len(products) = Len(preRun.recs)
          /\ \A i \in 1..Len(products) :
                IF i < idx THEN OneEntryAdded(preRun.recs[i], products[i])
                ELSE products[i] = preRun.recs[i]
    /\ outcome = "refreshed" =>
          /\ Len(file.recs) = Len(preRun.recs)
          /\ \A i \in 1..Len(file.recs) :
                IF i \in Prefix(preRun.recs)
                THEN OneEntryAdded(preRun.recs[i], file.recs[i])
                ELSE file.recs[i] = preRun.recs[i]

\* a refresh run over 51 records completed: the 50th re-priced, the 51st untouched
C18_Witness ==
    /\ outcome = "refreshed"
    /\ Len(preRun.recs) = REFRESH_LIMIT + 1
    /\ file.recs[REFRESH_LIMIT].currentPrice # preRun.recs[REFRESH_LIMIT].currentPrice
    /\ file.recs[REFRESH_LIMIT + 1] = preRun.recs[REFRESH_LIMIT + 1]

\* the file does not hold a list of records
Corrupt(f) == f.status \in {"partial"} \cup EmptyValues \cup UnusableValues

\* C21: when the persisted catalog is unreadable or not a list of records, a
\* discovery run and a refresh run abort before any mutation: the run does not
\* complete normally and the file is left exactly as it was, never rewritten.
C21_CorruptCatalogAborts ==
    (/\ Corrupt(preRun)
     /\ pc \notin {"f_open", "f_dump"}
     /\ outcome \notin {"fixed", "f_open", "f_dump"})
        => /\ file = preRun
           /\ outcome \notin {"discovered", "refreshed"}
           /\ pc \notin {"d_dump", "r_dump"}

DistinctIds(recs) == \A i, j \in 1..Len(recs) : i < j => recs[i].id # recs[j].id

\* the largest number among the ids that are numerals, 0 when there is none
LargestId(recs) ==
    Max({0} \cup {IntOf(recs[i].id) : i \in {j \in 1..Len(recs) : IsIntLiteral(recs[j].id)}})

\* the records the discovery run in progress has created
Created == (Len(preRun.recs) + 1)..Len(products)

\* C19: ids are unique and never reused: a discovery run on a catalog with distinct
\* ids keeps them distinct, gives each new record the successor of the largest
\* numeric id present, and never gives a new record an id that a record of the
\* catalog has had before, also when fix_data has removed that record since.
C19_IdsUniqueNeverReused ==
    InDiscovery =>
        /\ DistinctIds(preRun.recs) => DistinctIds(products)
        /\ \A i \in Created :
              products[i].id = StrOf(LargestId(SubSeq(products, 1, i - 1)) + 1)
        /\ \A i \in Created : products[i].id \notin assigned

\* the fields neither kind of run may change
Identity(rec) == <<rec.id, rec.name, rec.affiliateUrl, rec.imageUrl>>

\* a discovery or refresh run has persisted a catalog over a catalog
Repersisted ==
    /\ pc = "idle"
    /\ outcome \in {"discovered", "refreshed"}
    /\ preRun.status = "list"
    /\ file.status = "list"

\* C24: a discovery or refresh run deletes and reorders nothing: every record of the
\* catalog it loaded is in the catalog it persists at the same position, and a
\* discovery run leaves every field of those records as it was, only appending.
C24_RecordsKeepPosition ==
    Repersisted =>
        /\ Len(file.recs) >= Len(preRun.recs)
        /\ \A i \in 1..Len(preRun.recs) :
              /\ Identity(file.recs[i]) = Identity(preRun.recs[i])
              /\ outcome = "discovered" => file.recs[i] = preRun.recs[i]
        /\ outcome = "refreshed" => Len(file.recs) = Len(preRun.recs)

\* a discovery run has appended to a catalog that held records
C24_Witness ==
    /\ Repersisted
    /\ outcome = "discovered"
    /\ Len(preRun.recs) > 0
    /\ Len(file.recs) > Len(preRun.recs)

\* a refresh run has re-priced records of a catalog
C24_RefreshWitness ==
    /\ Repersisted
    /\ outcome = "refreshed"
    /\ \E i \in 1..Len(preRun.recs) : file.recs[i] # preRun.recs[i]

\* validate_data.py: every validate_ function gives the set of violations it reports

REQUIRED_FIELDS == {"id", "name", "currentPrice", "affiliateUrl"}

\* not product[field]
FieldEmpty(product, field) ==
    CASE field = "id" -> ~Truthy(product.id)
      [] field = "name" -> ~Truthy(product.name)
      [] field = "currentPrice" -> product.currentPrice = 0
      [] field = "affiliateUrl" -> ~Truthy(product.affiliateUrl)

validate_required_fields(product) ==
    {<<"empty", field>> : field \in {f \in REQUIRED_FIELDS : FieldEmpty(product, f)}}

validate_price(product) ==
    (IF product.currentPrice <= 0 THEN {<<"currentPrice", 0>>} ELSE {})
        \cup {<<"price", i>> : i \in {j \in 1..Len(product.priceHistory) :
                                          product.priceHistory[j].price < 0}}

\* sorted(history, key=date): a stable sort
RECURSIVE SortedByDate(_)
SortedByDate(history) ==
    IF history = <<>> THEN <<>>
    ELSE LET first == CHOOSE i \in 1..Len(history) :
                          /\ \A j \in 1..Len(history) : history[i].date <= history[j].date
                          /\ \A j \in 1..(i - 1) : history[j].date > history[i].date
         IN  <<history[first]>>
                 \o SortedByDate(SubSeq(history, 1, first - 1)
                                    \o SubSeq(history, first + 1, Len(history)))

validate_price_history(history) ==
    IF history # SortedByDate(history) THEN {<<"order", 0>>} ELSE {}

validate_asin(product) ==
    IF Truthy(product.affiliateUrl)
         /\ ~Truthy(validate_extract_asin_from_url(product.affiliateUrl))
    THEN {<<"asin", 0>>} ELSE {}

validate_product(product) ==
    validate_required_fields(product)
        \cup validate_price(product)
        \cup (IF product.priceHistory # <<>>
              THEN validate_price_history(product.priceHistory) ELSE {})
        \cup validate_asin(product)

\* the first history entry of the record was stamped by a run of this behaviour: the
\* record was created by a discovery run
FromDiscovery(rec) == rec.priceHistory # <<>> /\ rec.priceHistory[1].date > HISTORY_LIMIT

\* the records a completed discovery run created
NewRecords == (Len(preRun.recs) + 1)..Len(file.recs)

CreatedAtZero ==
    (pc = "idle" /\ outcome = "discovered") =>
        \A i \in NewRecords :
            /\ file.recs[i].currentPrice = 0
            /\ Len(file.recs[i].priceHistory) = 1
            /\ file.recs[i].priceHistory[1].price = 0

\* record i was created by a discovery run and processed by the refresh run that
\* has completed
RefreshedAfterDiscovery(i) ==
    /\ pc = "idle"
    /\ outcome = "refreshed"
    /\ i \in Prefix(file.recs)
    /\ FromDiscovery(preRun.recs[i])

PricedAfterRefresh(i) ==
    /\ file.recs[i].currentPrice > 0
    /\ Len(file.recs[i].priceHistory) >= 2
    /\ \A j \in 1..(Len(file.recs[i].priceHistory) - 1) :
          file.recs[i].priceHistory[j].date <= file.recs[i].priceHistory[j + 1].date

\* C25: a record a discovery run creates has currentPrice 0 and one priceHistory
\* entry of price 0; once a refresh run has processed it, its currentPrice is
\* positive, its priceHistory has at least two entries in non-decreasing timestamp
\* order, and validate_product reports no violation for it.
C25_PipelineSatisfiesValidator ==
    /\ CreatedAtZero
    /\ \A i \in 1..Len(file.recs) :
          RefreshedAfterDiscovery(i) =>
              PricedAfterRefresh(i) /\ validate_product(file.recs[i]) = {}

\* what holds of C25: every violation the validator reports is that of the listing
\* URL, and it is reported for the records whose code does not resolve (C20)
C25_ValidButForListingUrl ==
    /\ CreatedAtZero
    /\ \A i \in 1..Len(file.recs) :
          RefreshedAfterDiscovery(i) =>
              /\ PricedAfterRefresh(i)
              /\ validate_product(file.recs[i]) \subseteq {<<"asin", 0>>}
              /\ validate_product(file.recs[i]) # {}
                    <=> extract_asin_from_url(file.recs[i].affiliateUrl) = None

\* a created record whose code resolves was refreshed and passes the validator
C25_ValidReached ==
    \E i \in 1..Len(file.recs) :
        RefreshedAfterDiscovery(i) /\ validate_product(file.recs[i]) = {}

-----------------------------------------------------------------------------
(* The pure functions, each applied once to an argument drawn from a set.   *)
(* No pipeline run takes place in these specifications.                     *)

PipelineOff ==
    /\ file = AbsentFile
    /\ pc = "off"
    /\ products = <<>>
    /\ existing_asins = {}
    /\ urls = <<>>
    /\ idx = 0
    /\ randint = 0
    /\ unit = NoUnit
    /\ log = NoLog
    /\ clock = 0
    /\ runs = 0
    /\ preRun = AbsentFile
    /\ outcome = "none"
    /\ assigned = {}
    /\ AnnounceOff

pipelineVars == <<file, pc, products, existing_asins, urls, idx, randint, unit, log,
                  clock, runs, preRun, outcome, assigned, announceVars>>

(* Identity resolver *)

MIXED == <<"B","0","A","A","a","A","A","A","A","1">>
NINE == <<"B","0","A","A","A","A","A","A","A">>
OTHER_MARKER == <<"/","d","/">>
SEARCH_PATH == <<"/","s">>
TAG_QUERY == <<"t","a","g","=","x","i","o","r","a","-","2","2">>
KEYWORD == <<"k","=">>

\* the path segments after a marker: a code, one character short, one character
\* long, a lowercase letter inside, nothing
Segments == {K1, K3, NINE, K1 \o <<"X">>, MIXED, <<>>}

UrlPaths ==
    {pre \o m \o seg \o suf :
        pre \in {<<>>, AMAZON}, m \in {DP, GP_PRODUCT, OTHER_MARKER},
        seg \in Segments, suf \in {<<>>, REF}}
    \cup {AMAZON \o SEARCH_PATH}

UrlQueries == {<<>>, TAG_QUERY, KEYWORD \o DP \o K2, KEYWORD \o GP_PRODUCT \o K2}

WithQuery(path, query) == path \o <<"?">> \o query

InitResolver ==
    /\ PipelineOff
    /\ call \in [fn : {"extract_asin_from_url"}, path : UrlPaths,
                 q1 : UrlQueries, q2 : UrlQueries]
    /\ ret = <<>>

\* the resolver of import_ranking.py and the one of validate_data.py, each on the
\* path with the first and with the second query
Resolve ==
    /\ call.fn = "extract_asin_from_url"
    /\ ret = <<>>
    /\ ret' = [r1 |-> extract_asin_from_url(WithQuery(call.path, call.q1)),
               r2 |-> extract_asin_from_url(WithQuery(call.path, call.q2)),
               v1 |-> validate_extract_asin_from_url(WithQuery(call.path, call.q1)),
               v2 |-> validate_extract_asin_from_url(WithQuery(call.path, call.q2))]
    /\ UNCHANGED <<call, pipelineVars>>

SpecResolver == InitResolver /\ [][Resolve]_vars

IsCode(r) == Len(r) = ASIN_LEN /\ \A i \in 1..Len(r) : r[i] \in UpperAlnum

C10_QueryIndependent ==
    ret # <<>> => (ret.r1 = ret.r2 /\ ret.v1 = ret.v2)

\* the path segment that follows the first occurrence of marker in url: up to the
\* next "/" or "?" or the end
SegmentAfter(url, marker) ==
    LET start == Min(Occurrences(url, marker)) + Len(marker)
        stops == {i \in start..Len(url) : url[i] \in {"/", "?"}}
    IN  IF stops = {} THEN SubSeq(url, start, Len(url))
        ELSE SubSeq(url, start, Min(stops) - 1)

\* the query string carries no marker of its own
PlainQuery(q) == ~Contains(q, DP) /\ ~Contains(q, GP_PRODUCT)

\* C11: the resolver returns a code only when the path segment after the /dp/ or
\* /gp/product/ marker is a code of exactly 10 uppercase alphanumerics; a segment
\* that is a shorter or a longer run, or has a lowercase letter, gives "not found".
C11_OnlyExactLengthCodes ==
    (ret # <<>> /\ PlainQuery(call.q1)) =>
        \A r \in {ret.r1, ret.v1} :
            r # None =>
                \E m \in {DP, GP_PRODUCT} :
                    Contains(call.path, m) /\ IsCode(SegmentAfter(call.path, m))

(* Fallback degradation *)

LastKnownPrices == {0, 1, 500, 899, 900, 999, 1000, 1001, 1099, 1100, 1101, 1980, 248000}

InitFallback ==
    /\ PipelineOff
    /\ call \in [fn : {"fallback_random_price"}, current_price : LastKnownPrices,
                 price_change : PriceChanges]
    /\ ret = <<>>

Degrade ==
    /\ call.fn = "fallback_random_price"
    /\ ret = <<>>
    /\ ret' = <<fallback_random_price(call.current_price, call.price_change)>>
    /\ UNCHANGED <<call, pipelineVars>>

SpecFallback == InitFallback /\ [][Degrade]_vars

\* C6: the fallback price is the last known price plus the drawn change, a change of
\* at most 100 either way, unless that is below the floor 1000, and then it is the
\* floor; so it is never below 1000, and from 1000 it lies in 1000..1100.
C6_FallbackFloored ==
    ret # <<>> =>
        /\ call.price_change \in (0 - 100)..100
        /\ ret[1] >= 1000
        /\ IF call.current_price + call.price_change >= 1000
           THEN ret[1] = call.current_price + call.price_change
           ELSE ret[1] = 1000
        /\ call.current_price = 1000 => ret[1] \in 1000..1100

\* the floor applied to a draw below it, from the price 1000
C6_Witness ==
    /\ ret # <<>>
    /\ call.current_price = 1000
    /\ call.price_change < 0
    /\ ret[1] = 1000

(* Listing extractor *)

MaxElems == 2     \* containers of a ranking page

PageDocs == UNION {[1..k -> Elements] : k \in 0..MaxElems}

InitScrape ==
    /\ PipelineOff
    /\ call \in [fn : {"scrape_ranking_page"},
                 page : {OkPage(d) : d \in PageDocs} \cup FailedPages]
    /\ ret = <<>>

Scrape ==
    /\ call.fn = "scrape_ranking_page"
    /\ ret = <<>>
    /\ ret' = <<scrape_ranking_page(call.page)>>
    /\ UNCHANGED <<call, pipelineVars>>

SpecScrape == InitScrape /\ [][Scrape]_vars

\* C8: the candidate sequence of a page never holds two candidates with the same
\* identity code: containers that share a code yield one candidate for it, whether
\* they carry the code as a data-asin attribute or in a product link.
C8_CandidatesDistinct ==
    ret # <<>> =>
        \A i, j \in 1..Len(ret[1]) : i < j => ret[1][i].asin # ret[1][j].asin

\* C20: the record a discovery run creates for a candidate has a non-blank
\* affiliateUrl, and the identity resolver applied to it returns the candidate's
\* identity code, for every candidate a ranking page can yield, whether its code came
\* from a data-asin attribute or from a product link.
C20_ListingUrlYieldsKey ==
    ret # <<>> =>
        \A i \in 1..Len(ret[1]) :
            LET rec == NewProduct(<<>>, ret[1][i], 0)
            IN  /\ rec.affiliateUrl # <<>>
                /\ extract_asin_from_url(rec.affiliateUrl) = ret[1][i].asin

(* Price extractor *)

MaxPriceEls == 2  \* elements of a product page

PRICE_248000 == <<"Y","2","4","8",",","0","0","0">>

PriceTexts == {PRICE_1980, PRICE_ZERO, NOT_A_PRICE, PRICE_248000, <<>>}

\* the elements the lookups of extract_price_from_html select, and one they do not
PriceElements ==
    {PriceEl(k.tag, k.id, k.cls, k.color, t) :
        k \in {[tag |-> "span", id |-> "priceblock_ourprice", cls |-> "", color |-> ""],
                [tag |-> "span", id |-> "priceblock_dealprice", cls |-> "", color |-> ""],
                [tag |-> "span", id |-> "", cls |-> "a-price-whole", color |-> ""],
                [tag |-> "div", id |-> "", cls |-> "a-price-whole", color |-> ""],
                [tag |-> "span", id |-> "", cls |-> "", color |-> "price"],
                [tag |-> "div", id |-> "title", cls |-> "", color |-> ""]},
        t \in PriceTexts}

ProductDocs == UNION {[1..k -> PriceElements] : k \in 0..MaxPriceEls}

InitPrice ==
    /\ PipelineOff
    /\ call \in [fn : {"extract_price_from_html"}, doc : ProductDocs]
    /\ ret = <<>>

ExtractPrice ==
    /\ call.fn = "extract_price_from_html"
    /\ ret = <<>>
    /\ ret' = [price |-> extract_price_from_html(call.doc)]
    /\ UNCHANGED <<call, pipelineVars>>

SpecPrice == InitPrice /\ [][ExtractPrice]_vars

\* an element one of the lookups selects
IsPriceElement(e) == IsOurPrice(e) \/ IsDealPrice(e) \/ IsPriceWhole(e) \/ IsColorPrice(e)

\* the text has no digit other than 0 (no digit at all included)
DenotesNoPrice(t) == \A i \in 1..Len(t) : t[i] \in Digit => t[i] = "0"

\* C12: the extractor returns "not found" or an integer >= 1; a page whose price
\* texts have no digit or only zeros yields no price; a page whose price text is
\* "Y248,000" yields 248000, the separators removed.
C12_PricePositiveOrNone ==
    ret # <<>> =>
        /\ ret.price = NoPrice \/ ret.price >= 1
        /\ (\A i \in 1..Len(call.doc) : DenotesNoPrice(call.doc[i].text))
              => ret.price = NoPrice
        /\ (/\ \E i \in 1..Len(call.doc) : IsPriceElement(call.doc[i])
            /\ \A i \in 1..Len(call.doc) :
                  IsPriceElement(call.doc[i]) => call.doc[i].text = PRICE_248000)
              => ret.price = 248000

\* a price with a thousands separator was extracted past an element with a zero price
C12_Witness ==
    /\ ret # <<>>
    /\ ret.price = 248000
    /\ \E i \in 1..Len(call.doc) :
          IsPriceElement(call.doc[i]) /\ call.doc[i].text = PRICE_ZERO

\* the elements the five lookups visit, in the order of the lookups
LookupOrder(doc) ==
    LET One(i) == IF i = 0 THEN <<>> ELSE <<i>>
        RECURSIVE Spans(_)
        Spans(i) == IF i > Len(doc) THEN <<>>
                    ELSE IF IsPriceWholeSpan(doc[i]) THEN <<i>> \o Spans(i + 1)
                    ELSE Spans(i + 1)
    IN  One(FindFirst(OurPrices(doc))) \o One(FindFirst(DealPrices(doc)))
        \o One(FindFirst(PriceWholes(doc))) \o Spans(1)
        \o One(FindFirst(ColorPrices(doc)))

\* the price of the first element of the order whose text parses to a positive integer
RECURSIVE FirstPositive(_, _)
FirstPositive(doc, order) ==
    IF order = <<>> THEN NoPrice
    ELSE IF PriceFound(PriceOf(doc, Head(order))) THEN PriceOf(doc, Head(order))
    ELSE FirstPositive(doc, Tail(order))

\* C13: the extractor is a first-match-wins scan over the lookups priceblock_ourprice,
\* priceblock_dealprice, first a-price-whole, every span a-price-whole,
\* data-a-color=price: the result is the price of the earliest lookup whose text
\* parses to a positive integer, and "not found" only when there is none.
C13_FirstMatchWins ==
    ret # <<>> => ret.price = FirstPositive(call.doc, LookupOrder(call.doc))

-----------------------------------------------------------------------------
(* Announcement runs (post_to_x.py) over a catalog that refresh runs change *)
(* between them.  Time is counted in hours.                                 *)

RECENT_HOURS == 24
KEEP_HOURS == 48

MaxHours == 50    \* hours a behaviour spans
MaxPosts == 3     \* statuses per behaviour

\* the same pattern as validate_data.py, after the test for an empty URL
extract_asin(affiliate_url) ==
    IF ~Truthy(affiliate_url) THEN None ELSE validate_extract_asin_from_url(affiliate_url)

\* calc_discount_percent is not None: two entries, a positive previous price and a
\* current price below it
HasDiscount(product) ==
    /\ Len(product.priceHistory) >= 2
    /\ product.priceHistory[Len(product.priceHistory) - 1].price > 0
    /\ product.currentPrice < product.priceHistory[Len(product.priceHistory) - 1].price

\* calc_discount_percent(p) > calc_discount_percent(q), for products with a discount
HigherDiscount(p, q) ==
    LET pp == p.priceHistory[Len(p.priceHistory) - 1].price
        pq == q.priceHistory[Len(q.priceHistory) - 1].price
    IN  (pp - p.currentPrice) * pq > (pq - q.currentPrice) * pp

\* the loop of find_best_deal from product i on; best is the index of best_product
RECURSIVE BestFrom(_, _, _)
BestFrom(prods, i, best) ==
    IF i > Len(prods) THEN best
    ELSE IF ~Truthy(extract_asin(prods[i].affiliateUrl)) \/ ~HasDiscount(prods[i])
         THEN BestFrom(prods, i + 1, best)
    ELSE IF best = 0 \/ HigherDiscount(prods[i], prods[best])
         THEN BestFrom(prods, i + 1, i)
    ELSE BestFrom(prods, i + 1, best)

\* index of the best deal, 0 for None
find_best_deal(prods) == BestFrom(prods, 1, 0)

load_posted_log(logfile) == IF logfile.status = "list" THEN logfile.entries ELSE <<>>

is_recently_posted(asin, log_entries, t) ==
    \E i \in 1..Len(log_entries) :
        log_entries[i].asin = asin /\ log_entries[i].timestamp >= t - RECENT_HOURS

append_post_log(asin, log_entries, t) ==
    SelectSeq(log_entries, LAMBDA e : e.timestamp >= t - KEEP_HOURS)
        \o <<[asin |-> asin, timestamp |-> t]>>

\* a record whose price went from prev to cur in its last refresh
Deal(i, code, prev, cur) ==
    [id |-> StrOf(i), name |-> ITEM_A, currentPrice |-> cur,
     priceHistory |-> <<[date |-> 1, price |-> prev], [date |-> 2, price |-> cur]>>,
     affiliateUrl |-> build_affiliate_url(code), imageUrl |-> HTTPS_COLON \o IMG_PROTO]

\* catalogs whose best deal is K1, is K2, and one without a price drop
DealCatalogs ==
    {ListFile(<<Deal(4, K1, 2000, 1500), Deal(5, K2, 2000, 1800)>>),
     ListFile(<<Deal(4, K1, 2000, 1900), Deal(5, K2, 3000, 1500)>>),
     ListFile(<<Deal(4, K1, 2000, 2000), Unlinked(6)>>)}

TickHours == {12, 25}

InitAnnounce ==
    /\ file \in DealCatalogs
    /\ pc = "idle"
    /\ products = <<>>
    /\ existing_asins = {}
    /\ urls = <<>>
    /\ idx = 0
    /\ randint = 0
    /\ unit = NoUnit
    /\ log = NoLog
    /\ clock = 0
    /\ runs = 0
    /\ preRun = file
    /\ outcome = "none"
    /\ assigned = {}
    /\ AnnounceOff
    /\ PipelineIdle

announceFrame == <<pc, products, existing_asins, urls, idx, randint, unit, log, clock, runs,
                   preRun, outcome, assigned, call, ret>>

\* one run of post_best_deal_to_x (lines 277-324).  how is what the environment does
\* to the run: "no_client" (build_tweet_text or get_twitter_client raises),
\* "post_failed" (api.update_status raises), "save_failed" (save_posted_log raises
\* before it opens the log), "save_torn" (it raises after open(..., "w")), "ok"
post_best_deal_to_x(how) ==
    LET best == find_best_deal(file.recs)
        asin == extract_asin(file.recs[best].affiliateUrl)
        log_entries == load_posted_log(posted_log)
    IN  /\ best # 0
        /\ ~is_recently_posted(asin, log_entries, utcnow)
        /\ how \in {"post_failed", "save_failed", "save_torn", "ok"}
        /\ Len(posts) < MaxPosts
        /\ posts' = IF how = "post_failed" THEN posts
                    ELSE Append(posts, [asin |-> asin, at |-> utcnow])
        /\ posted_log' =
              IF how = "ok"
              THEN [status |-> "list", entries |-> append_post_log(asin, log_entries, utcnow)]
              ELSE IF how = "save_torn" THEN [status |-> "partial", entries |-> <<>>]
              ELSE posted_log
        /\ UNCHANGED <<file, utcnow, announceFrame>>

\* time passes
Tick ==
    \E d \in TickHours :
        /\ utcnow + d <= MaxHours
        /\ utcnow' = utcnow + d
        /\ UNCHANGED <<file, posted_log, posts, announceFrame>>

\* a refresh run changes the prices of the catalog
CatalogChanges ==
    /\ file' \in DealCatalogs \ {file}
    /\ UNCHANGED <<posted_log, posts, utcnow, announceFrame>>

NextAnnounce ==
    \/ \E how \in {"post_failed", "save_failed", "save_torn", "ok"} : post_best_deal_to_x(how)
    \/ Tick
    \/ CatalogChanges

SpecAnnounce == InitAnnounce /\ [][NextAnnounce]_vars


\* an earlier status announced the same identity code less than 24 hours before
AnnouncedTwice(after) ==
    \E j \in 1..Len(posts) :
        /\ posts[j].asin = after[Len(after)].asin
        /\ after[Len(after)].at - posts[j].at < RECENT_HOURS

\* the posting log holds a young entry of the catalog's best deal
BestDealLogged ==
    /\ find_best_deal(file.recs) # 0
    /\ \E i \in 1..Len(posted_log.entries) :
          /\ posted_log.entries[i].asin
                = validate_extract_asin_from_url(file.recs[find_best_deal(file.recs)].affiliateUrl)
          /\ utcnow - posted_log.entries[i].timestamp < RECENT_HOURS

\* C22: an announcement run never announces an identity code twice within 24 hours,
\* posts nothing when the log holds a young entry of its best deal, adds exactly one
\* log entry (identity code, timestamp) for every status it posts, never removes a
\* log entry, and never writes the catalog.
C22_NoRepeatAppendOnly ==
    [][(posts' # posts \/ posted_log' # posted_log)
          => /\ file' = file
             /\ Len(posted_log'.entries) >= Len(posted_log.entries)
             /\ SubSeq(posted_log'.entries, 1, Len(posted_log.entries)) = posted_log.entries
             /\ BestDealLogged => posts' = posts
             /\ posts' # posts
                  => /\ ~AnnouncedTwice(posts')
                     /\ posted_log'.entries
                          = Append(posted_log.entries,
                                   [asin |-> posts'[Len(posts')].asin, timestamp |-> utcnow])]_vars

\* the parts of C22 one at a time
C22_NoRepeat == [][posts' # posts => ~AnnouncedTwice(posts')]_vars
C22_AppendOnly ==
    [][/\ Len(posted_log'.entries) >= Len(posted_log.entries)
       /\ SubSeq(posted_log'.entries, 1, Len(posted_log.entries)) = posted_log.entries]_vars
C22_AppendOnlyWhenSaved ==
    [][posted_log'.status = "list"
         => /\ Len(posted_log'.entries) >= Len(posted_log.entries)
            /\ SubSeq(posted_log'.entries, 1, Len(posted_log.entries))
                 = posted_log.entries]_vars
C22_CatalogUntouched == [][posts' # posts \/ posted_log' # posted_log => file' = file]_vars
C22_QuietWhenLogged == [][BestDealLogged => posts' = posts]_vars

-----------------------------------------------------------------------------
(* Name sources of a container (extract_product_name), one container a page *)

LONG_TITLE == ITEM_A \o <<" ">> \o ITEM_B

\* the product link of a container: none, or a link with own text and nested span
NameLinks ==
    {<<>>} \cup
    {<<[href |-> DP \o K2, span |-> sp, text |-> tx]>> :
        sp \in {None, SHORT, ITEM_A}, tx \in {SHORT, ITEM_B}}

\* div.zg-item containers with every combination of name sources
NameContainers ==
    {[tag |-> "div", cls |-> ZG_ITEM, data_asin |-> da, links |-> ln,
      has_img |-> alt # None, alt |-> alt, data_src |-> None, src |-> IMG_ROOT,
      h2 |-> h2, text_normal |-> tn, zg_texts |-> zg] :
        da \in {None, K1, BLANKS}, ln \in NameLinks,
        alt \in {None, SHORT, ITEM_A}, h2 \in {None, SHORT, ITEM_B},
        tn \in {<<>>, <<ITEM_A>>, <<ITEM_A, LONG_TITLE>>},
        zg \in {<<>>, <<SHORT>>, <<SHORT, ITEM_B>>}}

InitName ==
    /\ PipelineOff
    /\ call \in [fn : {"scrape_ranking_page"}, page : {OkPage(<<e>>) : e \in NameContainers}]
    /\ ret = <<>>

SpecName == InitName /\ [][Scrape]_vars

\* the five name sources of the claim, in priority order: the name a source offers,
\* or None when it does not qualify
SourceName(e, n) ==
    CASE n = 1 -> IF e.has_img /\ e.alt # None /\ Len(Strip(e.alt)) > 3
                  THEN Strip(e.alt) ELSE None
      [] n = 2 -> IF e.h2 # None /\ Len(Strip(e.h2)) > 3 THEN Strip(e.h2) ELSE None
      [] n = 3 -> IF e.links = <<>> THEN None
                  ELSE IF e.links[1].span # None /\ Len(Strip(e.links[1].span)) > 3
                       THEN Strip(e.links[1].span)
                  ELSE IF Len(Strip(e.links[1].text)) > 3 THEN Strip(e.links[1].text)
                  ELSE None
      [] n = 4 -> IF \E i \in 1..Len(e.text_normal) : Len(Strip(e.text_normal[i])) > 10
                  THEN Strip(e.text_normal[CHOOSE i \in 1..Len(e.text_normal) :
                              /\ Len(Strip(e.text_normal[i])) > 10
                              /\ \A j \in 1..(i - 1) : Len(Strip(e.text_normal[j])) <= 10])
                  ELSE None
      [] n = 5 -> IF \E i \in 1..Len(e.zg_texts) : Len(Strip(e.zg_texts[i])) > 3
                  THEN Strip(e.zg_texts[CHOOSE i \in 1..Len(e.zg_texts) :
                              /\ Len(Strip(e.zg_texts[i])) > 3
                              /\ \A j \in 1..(i - 1) : Len(Strip(e.zg_texts[j])) <= 3])
                  ELSE None

Qualifying(e) == {n \in 1..5 : SourceName(e, n) # None}

\* the containers of the page that survive the deduplication
Survivors == unique_elements(product_elements(call.page.elems))

\* C23: for every container that survives the deduplication, a record is emitted if
\* and only if one of the five name sources qualifies, and its name is that of the
\* qualifying source of highest priority.
C23_RecordIffNameQualifies ==
    (ret # <<>> /\ Len(Survivors) = 1) =>
        LET e == Survivors[1]
        IN  /\ Len(ret[1]) = 1 <=> Qualifying(e) # {}
            /\ Len(ret[1]) = 1 => ret[1][1].name = SourceName(e, Min(Qualifying(e)))

\* the parts of C23 and the two cases in which it fails
NamedByFirstSource ==
    (ret # <<>> /\ Len(Survivors) = 1 /\ Len(ret[1]) = 1) =>
        /\ Qualifying(Survivors[1]) # {}
        /\ \/ ret[1][1].name = SourceName(Survivors[1], Min(Qualifying(Survivors[1])))
           \/ /\ Min(Qualifying(Survivors[1])) = 3
              /\ Survivors[1].links[1].span # None
              /\ Len(Strip(Survivors[1].links[1].span)) <= 3
EmittedUnlessBlankKeyOrShortSpan ==
    (ret # <<>> /\ Len(Survivors) = 1 /\ Qualifying(Survivors[1]) # {} /\ ret[1] = <<>>) =>
        \/ /\ Survivors[1].data_asin = BLANKS
           /\ Survivors[1].links = <<>>
        \/ /\ Qualifying(Survivors[1]) = {3}
           /\ Survivors[1].links[1].span # None
           /\ Len(Strip(Survivors[1].links[1].span)) <= 3

====
